---- MODULE Spec2Model ----
(***************************************************************************)
(* Model of src/lib/global_utils.py: the fastText embedding loader         *)
(* get_embeddings_from_ft and the text-to-id pipeline GenerateDataset.     *)
(*                                                                         *)
(* Representation.  A character is a string of length one, a word is a     *)
(* sequence of characters, a sentence a sequence of words, a document a    *)
(* sequence of sentences.  A Python list is a sequence.  The outcome of a  *)
(* call is a record: [status |-> "ok", value |-> v, depth |-> d] for a     *)
(* return (d is the nesting depth of the returned list, which Python's     *)
(* dynamic typing carries in the value itself), or [status |-> e] where e  *)
(* is the name of the exception class that leaves the call.                *)
(***************************************************************************)
EXTENDS Integers, Sequences, FiniteSets

VARIABLES
  data_frame,              \* self.data_frame: the records, in index order
  vocab_idx,               \* self.vocab_idx: word -> id
  vocab_size,              \* self.vocab_size
  sentence_start_tag_idx,  \* self.sentence_start_tag_idx
  sentence_end_tag_idx,    \* self.sentence_end_tag_idx
  word_unknown_tag_idx,    \* self.word_unknown_tag_idx
  call,                    \* the last call made: its name and arguments
  ret                      \* the outcome of that call

vars == <<data_frame, vocab_idx, vocab_size, sentence_start_tag_idx,
          sentence_end_tag_idx, word_unknown_tag_idx, call, ret>>

object == <<data_frame, vocab_idx, vocab_size, sentence_start_tag_idx,
            sentence_end_tag_idx, word_unknown_tag_idx>>

-----------------------------------------------------------------------------
(* Bounds of the model *)

MaxSentLen == 2      \* words in a sentence passed to a converter
MaxDocLen == 2       \* sentences in a document
MaxRecords == 2      \* records in the record table
MaxWordId == 5       \* largest id a vocabulary maps a word to
MaxLines == 2        \* vector lines in a fastText file
MaxDim == 2          \* components of a vector
MaxVocabWords == 3   \* length of the vocab_words list given to the loader

-----------------------------------------------------------------------------
(* Outcomes *)

Ok(v, d) == [status |-> "ok", value |-> v, depth |-> d]
Err(e) == [status |-> e]

\* Evaluating the outcomes rs[1], rs[2], ... in order: the first exception
\* leaves the loop; Collect gathers the values in a list.
FirstStatus(rs) ==
  IF \E i \in DOMAIN rs : rs[i].status # "ok"
    THEN rs[CHOOSE i \in DOMAIN rs :
              /\ rs[i].status # "ok"
              /\ \A j \in DOMAIN rs : j < i => rs[j].status = "ok"].status
    ELSE "ok"

Collect(rs, d) ==
  IF FirstStatus(rs) # "ok"
    THEN Err(FirstStatus(rs))
    ELSE Ok([i \in DOMAIN rs |-> rs[i].value], d)

RECURSIVE Flatten(_)
\* [x for s in ss for x in s]
Flatten(ss) == IF Len(ss) = 0 THEN <<>> ELSE Head(ss) \o Flatten(Tail(ss))

-----------------------------------------------------------------------------
(* get_embeddings_from_ft *)

\* A file is its parsed first line, header = <<declared count, declared
\* dimension>>, and one record per later line: the token str_list[0] and the
\* texts str_list[1:] of the components.  A float is written as the integer
\* number of its tenths.

\* np.float(f)
np_float(f) ==
  CASE f = "1" -> 10
    [] f = "1.0" -> 10
    [] f = "-2.5" -> -25

\* vec = np.array([np.float(f) for f in str_list[1:]])
ParseVec(comps) == [k \in DOMAIN comps |-> np_float(comps[k])]

RECURSIVE ReadLines(_, _)
\* for i, line in enumerate(ft_lines[1:]): ft_wvs_dict[word] = vec
ReadLines(lines, ft_wvs_dict) ==
  IF Len(lines) = 0 THEN ft_wvs_dict
  ELSE ReadLines(Tail(lines),
                 [w \in DOMAIN ft_wvs_dict \cup {Head(lines).word} |->
                    IF w = Head(lines).word THEN ParseVec(Head(lines).comps)
                    ELSE ft_wvs_dict[w]])

\* Seeded fault for C7: the loader filling row i from line i of the file
get_embeddings_from_ft_ByPosition(file, dim, vocab_words, randn) ==
  IF \E i \in DOMAIN file.lines : Len(file.lines[i].comps) # dim
    THEN Err("AssertionError")
  ELSE IF file.header[1] # Cardinality({file.lines[i].word : i \in DOMAIN file.lines})
    THEN Err("AssertionError")
  ELSE Ok([i \in DOMAIN vocab_words |->
             IF i \in DOMAIN file.lines
               THEN ParseVec(file.lines[i].comps)
               ELSE randn[i]], 2)

\* randn is the matrix np.random.randn(len(vocab_words), dim) returns
get_embeddings_from_ft(file, dim, vocab_words, randn) ==
  LET ft_vocab_size == file.header[1]
      ft_wvs_dict == ReadLines(file.lines, [w \in {} |-> <<>>])
  IN IF \E i \in DOMAIN file.lines : Len(file.lines[i].comps) # dim
       THEN Err("AssertionError")
     ELSE IF ft_vocab_size # Cardinality(DOMAIN ft_wvs_dict)
       THEN Err("AssertionError")
     ELSE Ok([i \in DOMAIN vocab_words |->
                IF vocab_words[i] \in DOMAIN ft_wvs_dict
                  THEN ft_wvs_dict[vocab_words[i]]
                  ELSE randn[i]], 2)

-----------------------------------------------------------------------------
(* Module constants.  SANY's lexer admits no grave accent inside a string, *)
(* so that one character of the alphabet is written "GRAVE".              *)

CHAR_ALPHABETS ==
  <<"a", "b", "c", "d", "e", "f", "g", "h", "i", "j", "k", "l", "m",
    "n", "o", "p", "q", "r", "s", "t", "u", "v", "w", "x", "y", "z",
    "0", "1", "2", "3", "4", "5", "6", "7", "8", "9", "-", ",", ";",
    ".", "!", "?", ":", "'", "\"", "/", "\\", "|", "_", "@", "#", "$",
    "%", "^", "&", "*", "~", "GRAVE", "+", "-", "=", "<", ">", "(", ")",
    "[", "]", "{", "}", "\n", " ">>

char_start_tag_idx == Len(CHAR_ALPHABETS) + 0
char_end_tag_idx == Len(CHAR_ALPHABETS) + 1
char_unknown_tag_idx == Len(CHAR_ALPHABETS) + 2
char_sent_start_tag_idx == Len(CHAR_ALPHABETS) + 3
char_sent_end_tag_idx == Len(CHAR_ALPHABETS) + 4

SOSent == <<"<", "S", "O", "S", "e", "n", "t", ">">>
EOSent == <<"<", "E", "O", "S", "e", "n", "t", ">">>
UNK == <<"<", "U", "N", "K", ">">>

default_unit_dict ==
  [gene_unit |-> "words", variation_unit |-> "words", doc_unit |-> "words",
   doc_form |-> "text", divide_document |-> "single_unit"]

-----------------------------------------------------------------------------
(* GenerateDataset: the converters *)

\* Seeded fault for C9: find counting positions from 1
find_OneBased(str, char) ==
  IF \E k \in DOMAIN str : str[k] = char
    THEN CHOOSE k \in DOMAIN str :
           str[k] = char /\ \A j \in DOMAIN str : j < k => str[j] # char
    ELSE -1

\* str.find(char): the 0-based index of the first occurrence, -1 when absent
find(str, char) ==
  IF \E k \in DOMAIN str : str[k] = char
    THEN (CHOOSE k \in DOMAIN str :
            str[k] = char /\ \A j \in DOMAIN str : j < k => str[j] # char) - 1
    ELSE -1

\* Seeded fault for C3: convertSent2WordIds comparing the id with <=
convertSent2WordIds_Le(sentence, add_start_end_tag) ==
  IF \E i \in DOMAIN sentence : sentence[i] \notin DOMAIN vocab_idx
    THEN Err("ValueError")
    ELSE Ok((IF add_start_end_tag THEN <<sentence_start_tag_idx>> ELSE <<>>)
            \o [i \in DOMAIN sentence |->
                  IF vocab_idx[sentence[i]] <= vocab_size
                    THEN vocab_idx[sentence[i]]
                    ELSE word_unknown_tag_idx]
            \o (IF add_start_end_tag THEN <<sentence_end_tag_idx>> ELSE <<>>),
            1)

\* The KeyError of a word that is no key of vocab_idx is caught and raised
\* again as ValueError.
convertSent2WordIds(sentence, add_start_end_tag) ==
  IF \E i \in DOMAIN sentence : sentence[i] \notin DOMAIN vocab_idx
    THEN Err("ValueError")
    ELSE Ok((IF add_start_end_tag THEN <<sentence_start_tag_idx>> ELSE <<>>)
            \o [i \in DOMAIN sentence |->
                  IF vocab_idx[sentence[i]] < vocab_size
                    THEN vocab_idx[sentence[i]]
                    ELSE word_unknown_tag_idx]
            \o (IF add_start_end_tag THEN <<sentence_end_tag_idx>> ELSE <<>>),
            1)

convertDoc2Sent2WordIds(document, add_start_end_tag) ==
  Collect([i \in DOMAIN document |->
             convertSent2WordIds(document[i], add_start_end_tag)], 2)

\* Never raises: the value is the list itself.
convertWord2Char2Ids(word, add_start_end_tag) ==
  (IF add_start_end_tag THEN <<char_start_tag_idx>> ELSE <<>>)
  \o [i \in DOMAIN word |-> find(CHAR_ALPHABETS, word[i])]
  \o (IF add_start_end_tag THEN <<char_end_tag_idx>> ELSE <<>>)

\* The unit == "chars" branch
Sent2Chars(sentence, add_start_end_tag) ==
  IF \E i \in DOMAIN sentence : sentence[i] \notin DOMAIN vocab_idx
    THEN Err("KeyError")
    ELSE Ok((IF add_start_end_tag THEN <<(<<char_sent_start_tag_idx>>)>> ELSE <<>>)
            \o [i \in DOMAIN sentence |->
                  IF vocab_idx[sentence[i]] < vocab_size
                    THEN convertWord2Char2Ids(sentence[i], add_start_end_tag)
                    ELSE <<char_unknown_tag_idx>>]
            \o (IF add_start_end_tag THEN <<(<<char_sent_end_tag_idx>>)>> ELSE <<>>),
            2)

RECURSIVE RawLoop_NoUnknown(_, _, _)
\* Seeded fault for C10: the raw_chars loop without the vocab_size test
RawLoop_NoUnknown(sentence, add_start_end_tag, acc) ==
  IF Len(sentence) = 0 THEN Ok(acc, 1)
  ELSE IF Head(sentence) \notin DOMAIN vocab_idx THEN Err("KeyError")
  ELSE RawLoop_NoUnknown(Tail(sentence), add_start_end_tag,
                         acc \o convertWord2Char2Ids(Head(sentence), add_start_end_tag))

RECURSIVE RawLoop(_, _, _)
\* for word in sentence: sent2words2char2id += ...
RawLoop(sentence, add_start_end_tag, acc) ==
  IF Len(sentence) = 0 THEN Ok(acc, 1)
  ELSE IF Head(sentence) \notin DOMAIN vocab_idx THEN Err("KeyError")
  ELSE RawLoop(Tail(sentence), add_start_end_tag,
               acc \o (IF vocab_idx[Head(sentence)] < vocab_size
                         THEN convertWord2Char2Ids(Head(sentence), add_start_end_tag)
                         ELSE <<char_unknown_tag_idx>>))

\* The unit == "raw_chars" branch
Sent2RawChars(sentence, add_start_end_tag) ==
  LET body == RawLoop(sentence, add_start_end_tag,
                      IF add_start_end_tag THEN <<char_sent_start_tag_idx>> ELSE <<>>)
  IN IF body.status # "ok" THEN body
     ELSE Ok(body.value
             \o (IF add_start_end_tag THEN <<char_sent_end_tag_idx>> ELSE <<>>), 1)

convertSent2Word2Char2Ids(sentence, add_start_end_tag, unit) ==
  IF unit = "chars" THEN Sent2Chars(sentence, add_start_end_tag)
  ELSE IF unit = "raw_chars" THEN Sent2RawChars(sentence, add_start_end_tag)
  ELSE Err("AssertionError")

\* In the "text" branch the name sentence is bound nowhere: the
\* comprehension of the "sentences" branch has its own scope and the module
\* has no global of that name, so evaluating it raises NameError.
convertDoc2Sent2Word2Char2Ids(document, doc_form, add_start_end_tag, unit) ==
  IF doc_form = "sentences"
    THEN Collect([i \in DOMAIN document |->
                    convertSent2Word2Char2Ids(document[i], add_start_end_tag, unit)],
                 IF unit = "chars" THEN 3 ELSE 2)
  ELSE IF doc_form = "text" THEN Err("NameError")
  ELSE Err("AssertionError")

-----------------------------------------------------------------------------
(* GenerateDataset.generate_data *)

\* "if not unit_dict": None and the empty dict select the default
UnitDictOf(unit_dict) ==
  IF DOMAIN unit_dict = {} THEN default_unit_dict ELSE unit_dict

\* The entries one record appends to ids_document under single_unit.
\* With doc_unit chars/raw_chars and doc_form "sentences" the loop body calls
\* convertDoc2Sent2Word2Char2Ids(document, add_start_end_tag,
\* doc_form="sentences", unit=...): add_start_end_tag is bound to the second
\* positional parameter, doc_form, which the keyword then names again, so the
\* call raises TypeError; a document without sentences never reaches it.
DocSingle(document, ud, add_start_end_tag) ==
  IF ud.doc_unit = "words" THEN
    IF ud.doc_form = "sentences"
      THEN LET r == convertDoc2Sent2WordIds(document, add_start_end_tag)
           IN IF r.status = "ok" THEN Ok(<<r.value>>, 2) ELSE r
      ELSE LET r == Collect([i \in DOMAIN document |->
                               convertSent2WordIds(document[i], add_start_end_tag)], 2)
           IN IF r.status = "ok" THEN Ok(<<Flatten(r.value)>>, 1) ELSE r
  ELSE IF ud.doc_unit = "chars" \/ ud.doc_unit = "raw_chars" THEN
    IF ud.doc_form = "sentences"
      THEN IF Len(document) = 0 THEN Ok(<<>>, 0) ELSE Err("TypeError")
      ELSE LET r == Collect([i \in DOMAIN document |->
                               convertSent2Word2Char2Ids(document[i], add_start_end_tag,
                                                         ud.doc_unit)], 2)
           IN IF r.status = "ok"
                THEN Ok(<<Flatten(r.value)>>, IF ud.doc_unit = "chars" THEN 2 ELSE 1)
                ELSE r
  ELSE Err("AssertionError")

\* The gene (variation) entry under single_unit: own_unit selects the branch,
\* and the character branch is given unit_dict["doc_unit"].
FieldSingle(sentence, own_unit, ud, add_start_end_tag) ==
  IF own_unit = "words"
    THEN convertSent2WordIds(sentence, add_start_end_tag)
    ELSE convertSent2Word2Char2Ids(sentence, add_start_end_tag, ud.doc_unit)

\* The gene (variation) entry under multiple_units
FieldMultiple(sentence, own_unit, add_start_end_tag) ==
  IF own_unit = "words"
    THEN convertSent2WordIds(sentence, add_start_end_tag)
    ELSE convertSent2Word2Char2Ids(sentence, add_start_end_tag, own_unit)

\* What one record appends to the four lists; gene_depth and variation_depth
\* are the nesting depths of the gene and variation entries (0: no entry).
Appended(d, l, g, v, gd, vd) ==
  [status |-> "ok", documents |-> d, labels |-> l, genes |-> g, variations |-> v,
   gene_depth |-> gd, variation_depth |-> vd]

GenSingle(rec, ud, has_class, add_start_end_tag) ==
  LET d == DocSingle(rec.Sentences, ud, add_start_end_tag)
      g == FieldSingle(rec.Gene, ud.gene_unit, ud, add_start_end_tag)
      v == FieldSingle(rec.Variation, ud.variation_unit, ud, add_start_end_tag)
  IN IF d.status # "ok" THEN Err(d.status)
     ELSE IF g.status # "ok" THEN Err(g.status)
     ELSE IF v.status # "ok" THEN Err(v.status)
     ELSE Appended(d.value, IF has_class THEN <<rec.Class>> ELSE <<>>,
                   <<g.value>>, <<v.value>>, g.depth, v.depth)

\* The entries one sentence appends to ids_document under multiple_units: a
\* doc_unit that is none of the three reaches no branch and appends nothing.
DocMultiple(sentence, ud, add_start_end_tag) ==
  IF ud.doc_unit = "words" THEN
    LET r == convertSent2WordIds(sentence, add_start_end_tag)
    IN IF r.status = "ok" THEN Ok(<<r.value>>, 1) ELSE Err("ValueError")
  ELSE IF ud.doc_unit = "chars" \/ ud.doc_unit = "raw_chars" THEN
    LET r == convertSent2Word2Char2Ids(sentence, add_start_end_tag, ud.doc_unit)
    IN IF r.status = "ok" THEN Ok(<<r.value>>, r.depth) ELSE r
  ELSE Ok(<<>>, 0)

\* Seeded fault for C1: multiple_units appending the label, gene and
\* variation once per record instead of once per sentence
GenMultiple_OncePerRecord(rec, ud, has_class, add_start_end_tag) ==
  LET n == Len(rec.Sentences)
      docs == [i \in 1..n |-> DocMultiple(rec.Sentences[i], ud, add_start_end_tag)]
      g == FieldMultiple(rec.Gene, ud.gene_unit, add_start_end_tag)
      v == FieldMultiple(rec.Variation, ud.variation_unit, add_start_end_tag)
      all == Collect(docs, 0)
  IN IF n = 0 THEN Appended(<<>>, <<>>, <<>>, <<>>, 0, 0)
     ELSE IF all.status # "ok" THEN Err(all.status)
     ELSE IF g.status # "ok" THEN Err(g.status)
     ELSE IF v.status # "ok" THEN Err(v.status)
     ELSE Appended(Flatten(all.value), IF has_class THEN <<rec.Class>> ELSE <<>>,
                   <<g.value>>, <<v.value>>, g.depth, v.depth)

\* The loop over the sentences of one record.  The gene and variation
\* conversions do not depend on the sentence, so once the first iteration has
\* passed only a later document conversion can raise.
GenMultiple(rec, ud, has_class, add_start_end_tag) ==
  LET n == Len(rec.Sentences)
      docs == [i \in 1..n |-> DocMultiple(rec.Sentences[i], ud, add_start_end_tag)]
      g == FieldMultiple(rec.Gene, ud.gene_unit, add_start_end_tag)
      v == FieldMultiple(rec.Variation, ud.variation_unit, add_start_end_tag)
      all == Collect(docs, 0)
  IN IF n = 0 THEN Appended(<<>>, <<>>, <<>>, <<>>, 0, 0)
     ELSE IF docs[1].status # "ok" THEN Err(docs[1].status)
     ELSE IF g.status # "ok" THEN Err(g.status)
     ELSE IF v.status # "ok" THEN Err(v.status)
     ELSE IF all.status # "ok" THEN Err(all.status)
     ELSE Appended(Flatten(all.value),
                   IF has_class THEN [i \in 1..n |-> rec.Class] ELSE <<>>,
                   [i \in 1..n |-> g.value], [i \in 1..n |-> v.value],
                   g.depth, v.depth)

MaxOf(S) == IF S = {} THEN 0 ELSE CHOOSE x \in S : \A y \in S : y <= x

generate_data(unit_dict, has_class, add_start_end_tag) ==
  LET ud == UnitDictOf(unit_dict)
      rs == [i \in DOMAIN data_frame |->
               IF ud.divide_document = "single_unit"
                 THEN GenSingle(data_frame[i], ud, has_class, add_start_end_tag)
                 ELSE GenMultiple(data_frame[i], ud, has_class, add_start_end_tag)]
  IN IF FirstStatus(rs) # "ok" THEN Err(FirstStatus(rs))
     ELSE [status |-> "ok",
           ids_document |-> Flatten([i \in DOMAIN rs |-> rs[i].documents]),
           ids_genes |-> Flatten([i \in DOMAIN rs |-> rs[i].genes]),
           ids_variations |-> Flatten([i \in DOMAIN rs |-> rs[i].variations]),
           ids_labels |-> Flatten([i \in DOMAIN rs |-> rs[i].labels]),
           gene_depth |-> MaxOf({rs[i].gene_depth : i \in DOMAIN rs}),
           variation_depth |-> MaxOf({rs[i].variation_depth : i \in DOMAIN rs})]

-----------------------------------------------------------------------------
(* Inputs *)

cat == <<"c", "a", "t">>
xY == <<"x", "-", "Y">>

WordPool == {cat, xY}

WordAt(z) == IF z % 2 = 0 THEN cat ELSE xY

SeqsUpTo(S, n) == UNION {[1..m -> S] : m \in 0..n}

SentPool == SeqsUpTo(WordPool, MaxSentLen)

\* Words given to convertWord2Char2Ids: the pool, the reserved tokens, and
\* every character of the alphabet and a few outside it as one-letter words.
CharWordPool ==
  WordPool \cup {SOSent, UNK, <<>>}
  \cup {<<CHAR_ALPHABETS[k]>> : k \in DOMAIN CHAR_ALPHABETS}
  \cup {<<"A">>, <<"\t">>, <<"-", "+", "-">>}

\* A sample of sentences and documents of every length up to the bounds
SentAt(q) == [p \in 1..(q % (MaxSentLen + 1)) |-> WordAt(q + p)]
DocAt(j) == [i \in 1..(j % (MaxDocLen + 1)) |-> SentAt(j + i)]
DocPool == {DocAt(j) : j \in 0..(2 * MaxDocLen + 1)}

RecAt(j) ==
  [Sentences |-> DocAt(j), Gene |-> <<WordAt(j)>>,
   Variation |-> <<WordAt(j + 1), WordAt(j)>>, Class |-> 1 + (j % 2)]

\* Record tables: up to MaxRecords consecutive records of the sample
Frames == {[i \in 1..m |-> RecAt(k + i - 1)] : m \in 0..MaxRecords, k \in 0..MaxDocLen}

\* Vocabularies: the three reserved tokens and any subset of the word pool
Vocabs ==
  UNION {{[w \in {SOSent, EOSent, UNK} \cup S |->
             IF w = SOSent THEN 0
             ELSE IF w = EOSent THEN 1
             ELSE IF w = UNK THEN 2
             ELSE f[w]] : f \in [S -> 3..MaxWordId]} : S \in SUBSET WordPool}

Units == {"words", "chars", "raw_chars"}

UnitDicts ==
  [gene_unit : Units, variation_unit : Units, doc_unit : Units \cup {"syllables"},
   doc_form : {"sentences", "text"},
   divide_document : {"single_unit", "multiple_units"}]

\* Inputs of the loader
FloatTextAt(z) == CASE z % 3 = 0 -> "1" [] z % 3 = 1 -> "-2.5" [] OTHER -> "1.0"

FtLinePool ==
  {[word |-> w, comps |-> [k \in 1..n |-> FloatTextAt(seed + k)]] :
     w \in WordPool, n \in 1..MaxDim, seed \in 0..1}

FtFiles ==
  {[header |-> <<count, hdim>>, lines |-> ls] :
     count \in 0..MaxLines, hdim \in 1..MaxDim, ls \in SeqsUpTo(FtLinePool, MaxLines)}

FtWordAt(z) == CASE z % 3 = 0 -> cat [] z % 3 = 1 -> UNK [] OTHER -> xY

FtVocabWords == {[i \in 1..m |-> FtWordAt(k + i)] : m \in 0..MaxVocabWords, k \in 0..2}

\* Two of the matrices randn can return, in tenths
RandnPool(n, dim) ==
  {[i \in 1..n |-> [k \in 1..dim |-> IF (seed + i + k) % 2 = 0 THEN 3 ELSE -14]] :
     seed \in 0..1}

-----------------------------------------------------------------------------
(* The state machine: the object after construction, one action per method *)
(* call, made when no call is in progress, and the return to the caller.   *)
(* No method writes a field of the object.                                 *)

\* Between calls: no call is in progress and no outcome is pending
Idle == [op |-> "idle"]
NoOutcome == [status |-> "none"]

Init ==
  /\ vocab_idx \in Vocabs
  /\ vocab_size = Cardinality(DOMAIN vocab_idx)
  /\ sentence_start_tag_idx = vocab_idx[SOSent]
  /\ sentence_end_tag_idx = vocab_idx[EOSent]
  /\ word_unknown_tag_idx = vocab_idx[UNK]
  /\ data_frame \in Frames
  /\ call = Idle
  /\ ret = NoOutcome

Call_convertSent2WordIds ==
  /\ call = Idle
  /\ \E sentence \in SentPool, add_start_end_tag \in BOOLEAN :
      /\ call' = [op |-> "convertSent2WordIds", sentence |-> sentence,
                  add_start_end_tag |-> add_start_end_tag]
      /\ ret' = convertSent2WordIds(sentence, add_start_end_tag)
      /\ UNCHANGED object

Call_convertDoc2Sent2WordIds ==
  /\ call = Idle
  /\ \E document \in DocPool, add_start_end_tag \in BOOLEAN :
      /\ call' = [op |-> "convertDoc2Sent2WordIds", document |-> document,
                  add_start_end_tag |-> add_start_end_tag]
      /\ ret' = convertDoc2Sent2WordIds(document, add_start_end_tag)
      /\ UNCHANGED object

Call_convertWord2Char2Ids ==
  /\ call = Idle
  /\ \E word \in CharWordPool, add_start_end_tag \in BOOLEAN :
      /\ call' = [op |-> "convertWord2Char2Ids", word |-> word,
                  add_start_end_tag |-> add_start_end_tag]
      /\ ret' = Ok(convertWord2Char2Ids(word, add_start_end_tag), 1)
      /\ UNCHANGED object

Call_convertSent2Word2Char2Ids ==
  /\ call = Idle
  /\ \E sentence \in SentPool, add_start_end_tag \in BOOLEAN,
       unit \in Units \cup {"syllables"} :
      /\ call' = [op |-> "convertSent2Word2Char2Ids", sentence |-> sentence,
                  add_start_end_tag |-> add_start_end_tag, unit |-> unit]
      /\ ret' = convertSent2Word2Char2Ids(sentence, add_start_end_tag, unit)
      /\ UNCHANGED object

Call_convertDoc2Sent2Word2Char2Ids ==
  /\ call = Idle
  /\ \E document \in DocPool, doc_form \in {"sentences", "text", "paragraphs"},
       add_start_end_tag \in BOOLEAN, unit \in {"chars", "raw_chars"} :
      /\ call' = [op |-> "convertDoc2Sent2Word2Char2Ids", document |-> document,
                  doc_form |-> doc_form, add_start_end_tag |-> add_start_end_tag,
                  unit |-> unit]
      /\ ret' = convertDoc2Sent2Word2Char2Ids(document, doc_form, add_start_end_tag, unit)
      /\ UNCHANGED object

Call_generate_data ==
  /\ call = Idle
  /\ \E unit_dict \in UnitDicts, has_class \in BOOLEAN, add_start_end_tag \in BOOLEAN :
      /\ call' = [op |-> "generate_data", unit_dict |-> unit_dict,
                  has_class |-> has_class, add_start_end_tag |-> add_start_end_tag]
      /\ ret' = generate_data(unit_dict, has_class, add_start_end_tag)
      /\ UNCHANGED object

\* generate_data() with unit_dict left at its default None
Call_generate_data_default ==
  /\ call = Idle
  /\ \E has_class \in BOOLEAN, add_start_end_tag \in BOOLEAN :
      /\ call' = [op |-> "generate_data", unit_dict |-> <<>>,
                  has_class |-> has_class, add_start_end_tag |-> add_start_end_tag]
      /\ ret' = generate_data(<<>>, has_class, add_start_end_tag)
      /\ UNCHANGED object

\* The caller takes the outcome; the object is ready for the next call
Return ==
  /\ call # Idle
  /\ call' = Idle
  /\ ret' = NoOutcome
  /\ UNCHANGED object

Next ==
  \/ Call_convertSent2WordIds
  \/ Call_convertDoc2Sent2WordIds
  \/ Call_convertWord2Char2Ids
  \/ Call_convertSent2Word2Char2Ids
  \/ Call_convertDoc2Sent2Word2Char2Ids
  \/ Call_generate_data
  \/ Call_generate_data_default
  \/ Return

Spec == Init /\ [][Next]_vars

-----------------------------------------------------------------------------
(* The loader is a function of the module: it reads no object.  Its        *)
(* specification makes its calls beside one fixed GenerateDataset.         *)

InitFt ==
  /\ vocab_idx = [w \in {SOSent, EOSent, UNK} |->
                    IF w = SOSent THEN 0 ELSE IF w = EOSent THEN 1 ELSE 2]
  /\ vocab_size = Cardinality(DOMAIN vocab_idx)
  /\ sentence_start_tag_idx = vocab_idx[SOSent]
  /\ sentence_end_tag_idx = vocab_idx[EOSent]
  /\ word_unknown_tag_idx = vocab_idx[UNK]
  /\ data_frame = <<>>
  /\ call = Idle
  /\ ret = NoOutcome

Call_get_embeddings_from_ft ==
  /\ call = Idle
  /\ \E file \in FtFiles, dim \in 1..MaxDim, vocab_words \in FtVocabWords :
       \E randn \in RandnPool(Len(vocab_words), dim) :
         /\ call' = [op |-> "get_embeddings_from_ft", file |-> file, dim |-> dim,
                     vocab_words |-> vocab_words]
         /\ ret' = get_embeddings_from_ft(file, dim, vocab_words, randn)
         /\ UNCHANGED object

NextFt ==
  \/ Call_get_embeddings_from_ft
  \/ Return

SpecFt == InitFt /\ [][NextFt]_vars

-----------------------------------------------------------------------------
(* Properties *)

InVocab(sentence) == \A i \in DOMAIN sentence : sentence[i] \in DOMAIN vocab_idx

DocInVocab(document) == \A i \in DOMAIN document : InVocab(document[i])

FrameInVocab ==
  \A i \in DOMAIN data_frame :
    /\ DocInVocab(data_frame[i].Sentences)
    /\ InVocab(data_frame[i].Gene)
    /\ InVocab(data_frame[i].Variation)

InAlphabet(c) == \E k \in DOMAIN CHAR_ALPHABETS : CHAR_ALPHABETS[k] = c

\* CHAR_ALPHABETS[k] for an id k >= 0
CharAt(k) == CHAR_ALPHABETS[k + 1]

TagOffset(add_start_end_tag) == IF add_start_end_tag THEN 1 ELSE 0

\* C3: convertSent2WordIds of a sentence whose words are all keys of vocab_idx
\* returns one id per word in order, the mapped id when it is below vocab_size
\* and the id of <UNK> otherwise, between the <SOSent> and <EOSent> ids exactly
\* when add_start_end_tag is set.
C3_WordIds ==
  (call.op = "convertSent2WordIds" /\ InVocab(call.sentence)) =>
    /\ ret.status = "ok"
    /\ LET off == TagOffset(call.add_start_end_tag)
           n == Len(call.sentence)
       IN /\ Len(ret.value) = n + 2 * off
          /\ \A i \in 1..n :
               ret.value[i + off] =
                 IF vocab_idx[call.sentence[i]] < vocab_size
                   THEN vocab_idx[call.sentence[i]]
                   ELSE vocab_idx[UNK]
          /\ call.add_start_end_tag =>
               /\ ret.value[1] = vocab_idx[SOSent]
               /\ ret.value[n + 2] = vocab_idx[EOSent]

\* A tagged two-word sentence with one id in range and one out of range
C3_Witness ==
  /\ call.op = "convertSent2WordIds"
  /\ call.add_start_end_tag
  /\ Len(call.sentence) = 2
  /\ InVocab(call.sentence)
  /\ vocab_idx[call.sentence[1]] < vocab_size
  /\ vocab_idx[call.sentence[2]] >= vocab_size
  /\ ret.status = "ok"

\* C9: convertWord2Char2Ids returns one id per character in order, between
\* char_start_tag_idx and char_end_tag_idx exactly when add_start_end_tag is
\* set; the id k of a character of CHAR_ALPHABETS decodes to it,
\* CHAR_ALPHABETS[k] = c, and a character outside CHAR_ALPHABETS gets -1.
C9_CharIds ==
  call.op = "convertWord2Char2Ids" =>
    /\ ret.status = "ok"
    /\ LET off == TagOffset(call.add_start_end_tag)
           n == Len(call.word)
       IN /\ Len(ret.value) = n + 2 * off
          /\ call.add_start_end_tag =>
               /\ ret.value[1] = char_start_tag_idx
               /\ ret.value[n + 2] = char_end_tag_idx
          /\ \A i \in 1..n :
               IF InAlphabet(call.word[i])
                 THEN /\ ret.value[i + off] \in 0..(Len(CHAR_ALPHABETS) - 1)
                      /\ CharAt(ret.value[i + off]) = call.word[i]
                 ELSE ret.value[i + off] = -1

\* A tagged word holding a character that occurs twice in the alphabet and a
\* character outside it
C9_Witness ==
  /\ call.op = "convertWord2Char2Ids"
  /\ call.add_start_end_tag
  /\ \E i \in DOMAIN call.word :
       Cardinality({k \in DOMAIN CHAR_ALPHABETS : CHAR_ALPHABETS[k] = call.word[i]}) = 2
  /\ \E i \in DOMAIN call.word : ~InAlphabet(call.word[i])
  /\ ret.status = "ok"

\* C10: convertSent2Word2Char2Ids of a sentence whose words are all keys of
\* vocab_idx: under "chars" one sub-sequence per word in order, [unknown tag]
\* for a word whose id is not below vocab_size, inside one leading
\* [sentence start tag] and one trailing [sentence end tag] exactly when
\* add_start_end_tag is set; under "raw_chars" the flat concatenation of the
\* sub-sequences of the "chars" result for the same arguments.
C10_CharsAndRawChars ==
  (/\ call.op = "convertSent2Word2Char2Ids"
   /\ call.unit \in {"chars", "raw_chars"}
   /\ InVocab(call.sentence)) =>
    /\ ret.status = "ok"
    /\ LET off == TagOffset(call.add_start_end_tag)
           n == Len(call.sentence)
           chars == convertSent2Word2Char2Ids(call.sentence, call.add_start_end_tag,
                                              "chars")
       IN IF call.unit = "chars"
            THEN /\ Len(ret.value) = n + 2 * off
                 /\ call.add_start_end_tag =>
                      /\ ret.value[1] = <<char_sent_start_tag_idx>>
                      /\ ret.value[n + 2] = <<char_sent_end_tag_idx>>
                 /\ \A i \in 1..n :
                      ret.value[i + off] =
                        IF vocab_idx[call.sentence[i]] >= vocab_size
                          THEN <<char_unknown_tag_idx>>
                          ELSE convertWord2Char2Ids(call.sentence[i],
                                                    call.add_start_end_tag)
            ELSE /\ chars.status = "ok"
                 /\ ret.value = Flatten(chars.value)

\* A tagged raw_chars conversion of a sentence with a word in range and a
\* word out of range
C10_Witness ==
  /\ call.op = "convertSent2Word2Char2Ids"
  /\ call.unit = "raw_chars"
  /\ call.add_start_end_tag
  /\ InVocab(call.sentence)
  /\ \E i \in DOMAIN call.sentence : vocab_idx[call.sentence[i]] < vocab_size
  /\ \E i \in DOMAIN call.sentence : vocab_idx[call.sentence[i]] >= vocab_size
  /\ ret.status = "ok"

\* The unit configuration the call in progress runs under
CallUnits == UnitDictOf(call.unit_dict)

RECURSIVE SentencesBefore(_)
\* The number of sentences in the records before record i of the table
SentencesBefore(i) ==
  IF i <= 1 THEN 0 ELSE SentencesBefore(i - 1) + Len(data_frame[i - 1].Sentences)

TotalSentences == SentencesBefore(Len(data_frame) + 1)

\* C1: when generate_data returns under multiple_units with has_class and a
\* doc_unit of words, chars or raw_chars, a record with n sentences has
\* contributed exactly n consecutive entries to each of the four lists, its n
\* gene entries are equal, its n variation entries are equal, its n labels are
\* the record's Class, and the four lists have the same length.
C1_MultipleUnitsAligned ==
  (/\ call.op = "generate_data"
   /\ CallUnits.divide_document = "multiple_units"
   /\ CallUnits.doc_unit \in Units
   /\ call.has_class
   /\ ret.status = "ok") =>
    /\ Len(ret.ids_document) = TotalSentences
    /\ Len(ret.ids_genes) = TotalSentences
    /\ Len(ret.ids_variations) = TotalSentences
    /\ Len(ret.ids_labels) = TotalSentences
    /\ \A i \in DOMAIN data_frame :
         \A p \in 1..Len(data_frame[i].Sentences) :
           /\ ret.ids_genes[SentencesBefore(i) + p] = ret.ids_genes[SentencesBefore(i) + 1]
           /\ ret.ids_variations[SentencesBefore(i) + p]
                = ret.ids_variations[SentencesBefore(i) + 1]
           /\ ret.ids_labels[SentencesBefore(i) + p] = data_frame[i].Class

\* A returned multiple_units call over two records of different classes, one
\* of them with at least two sentences
C1_Witness ==
  /\ call.op = "generate_data"
  /\ CallUnits.divide_document = "multiple_units"
  /\ CallUnits.doc_unit = "chars"
  /\ call.has_class
  /\ ret.status = "ok"
  /\ Len(data_frame) >= 2
  /\ \E i \in DOMAIN data_frame : Len(data_frame[i].Sentences) >= 2
  /\ data_frame[1].Class # data_frame[2].Class
  /\ Len(ret.ids_labels) >= 3

\* The last line of the file that holds the token word
LastLineOf(file, word) ==
  CHOOSE i \in DOMAIN file.lines :
    /\ file.lines[i].word = word
    /\ \A j \in DOMAIN file.lines : file.lines[j].word = word => j <= i

FileTokens(file) == {file.lines[i].word : i \in DOMAIN file.lines}

WellFormed(file, dim) ==
  /\ \A i \in DOMAIN file.lines : Len(file.lines[i].comps) = dim
  /\ file.header[1] = Cardinality(FileTokens(file))

\* C7: for a well-formed file (every vector has dim components, the declared
\* count is the number of distinct tokens) get_embeddings_from_ft returns
\* len(vocab_words) rows of dim columns, and row i is the vector parsed from
\* the (last) line of the token vocab_words[i] whenever that word is a token of
\* the file, wherever the line stands in the file and whatever the other words
\* are.
C7_RowsByWord ==
  (call.op = "get_embeddings_from_ft" /\ WellFormed(call.file, call.dim)) =>
    /\ ret.status = "ok"
    /\ Len(ret.value) = Len(call.vocab_words)
    /\ \A i \in DOMAIN call.vocab_words :
         /\ Len(ret.value[i]) = call.dim
         /\ call.vocab_words[i] \in FileTokens(call.file) =>
              \A k \in 1..call.dim :
                ret.value[i][k] =
                  np_float(call.file.lines[LastLineOf(call.file, call.vocab_words[i])].comps[k])

\* A load where the file lists two tokens in the opposite order of
\* vocab_words and vocab_words has a word the file lacks
C7_Witness ==
  /\ call.op = "get_embeddings_from_ft"
  /\ ret.status = "ok"
  /\ Len(call.file.lines) = 2
  /\ Len(call.vocab_words) = 3
  /\ call.file.lines[1].word = call.vocab_words[3]
  /\ call.file.lines[2].word = call.vocab_words[1]
  /\ call.file.lines[1].comps # call.file.lines[2].comps
  /\ call.vocab_words[2] \notin FileTokens(call.file)

\* C2: generate_data under single_unit with has_class succeeds for every
\* doc_unit of words, chars and raw_chars, every doc_form and every record, with
\* or without sentences, and leaves one entry per record in each of the four
\* lists.  Stated for the calls least exposed to other failures: every word
\* of the table is a key of vocab_idx and gene and variation are encoded as
\* words.
C2_SingleUnitOnePerRecord ==
  (/\ call.op = "generate_data"
   /\ CallUnits.divide_document = "single_unit"
   /\ CallUnits.doc_unit \in Units
   /\ CallUnits.doc_form \in {"sentences", "text"}
   /\ CallUnits.gene_unit = "words"
   /\ CallUnits.variation_unit = "words"
   /\ call.has_class
   /\ FrameInVocab) =>
    /\ ret.status = "ok"
    /\ Len(ret.ids_document) = Len(data_frame)
    /\ Len(ret.ids_genes) = Len(data_frame)
    /\ Len(ret.ids_variations) = Len(data_frame)
    /\ Len(ret.ids_labels) = Len(data_frame)

\* C4: a sentence with a word that is no key of vocab_idx makes
\* convertSent2WordIds and convertSent2Word2Char2Ids (chars, raw_chars) fail
\* with the ValueError of the word-level path, and a lookup failure never
\* leaves generate_data as any other error kind.
C4_LookupFailureIsValueError ==
  /\ (/\ call.op \in {"convertSent2WordIds", "convertSent2Word2Char2Ids"}
      /\ (call.op = "convertSent2Word2Char2Ids" => call.unit \in {"chars", "raw_chars"})
      /\ ~InVocab(call.sentence)) =>
       ret.status = "ValueError"
  /\ call.op = "generate_data" => ret.status # "KeyError"

\* C5: over a table with a record that has a sentence, generate_data with a
\* doc_unit outside words, chars and raw_chars fails with the assertion in
\* both divide_document modes, and never returns lists in which gene or
\* variation entries stand without document entries.  Stated over tables
\* whose words are all keys of vocab_idx, so that no lookup fails first.
C5_InvalidDocUnitAsserts ==
  (/\ call.op = "generate_data"
   /\ CallUnits.doc_unit \notin Units
   /\ FrameInVocab
   /\ \E i \in DOMAIN data_frame : Len(data_frame[i].Sentences) >= 1) =>
    /\ ret.status = "AssertionError"
    /\ ret.status = "ok" =>
         ~(Len(ret.ids_document) = 0 /\ Len(ret.ids_genes) > 0)

\* The nesting depth of the encoding of a sentence under a unit
DepthOfUnit(unit) == IF unit = "chars" THEN 2 ELSE 1

\* The encoding of one sentence under a unit alone
EncodeAlone(sentence, unit, add_start_end_tag) ==
  IF unit = "words"
    THEN convertSent2WordIds(sentence, add_start_end_tag)
    ELSE convertSent2Word2Char2Ids(sentence, add_start_end_tag, unit)

\* The positions of the entries of record i in the lists a call returns
EntriesOf(i) ==
  IF CallUnits.divide_document = "single_unit"
    THEN {i}
    ELSE {SentencesBefore(i) + p : p \in 1..Len(data_frame[i].Sentences)}

\* C6: for every gene_unit, variation_unit and doc_unit of words, chars and
\* raw_chars, in both divide_document modes, generate_data succeeds (over a
\* table whose words are all keys of vocab_idx) and every gene entry of a
\* record is the encoding of its Gene under gene_unit alone, every variation
\* entry the encoding of its Variation under variation_unit alone.
C6_GeneVariationByOwnUnit ==
  (/\ call.op = "generate_data"
   /\ CallUnits.doc_unit \in Units
   /\ CallUnits.gene_unit \in Units
   /\ CallUnits.variation_unit \in Units
   /\ FrameInVocab) =>
    /\ ret.status = "ok"
    /\ \A i \in DOMAIN data_frame : \A e \in EntriesOf(i) :
         /\ ret.gene_depth = DepthOfUnit(CallUnits.gene_unit)
         /\ ret.ids_genes[e] =
              EncodeAlone(data_frame[i].Gene, CallUnits.gene_unit,
                          call.add_start_end_tag).value
         /\ ret.variation_depth = DepthOfUnit(CallUnits.variation_unit)
         /\ ret.ids_variations[e] =
              EncodeAlone(data_frame[i].Variation, CallUnits.variation_unit,
                          call.add_start_end_tag).value

\* C8: convertDoc2Sent2Word2Char2Ids with unit chars or raw_chars, over a
\* document whose words are all keys of vocab_idx: "sentences" returns the
\* list of the per-sentence conversions in order, "text" their in-order
\* concatenation, and both succeed.
C8_DocFormSentencesAndText ==
  (/\ call.op = "convertDoc2Sent2Word2Char2Ids"
   /\ call.doc_form \in {"sentences", "text"}
   /\ DocInVocab(call.document)) =>
    /\ ret.status = "ok"
    /\ LET per == [i \in DOMAIN call.document |->
                     convertSent2Word2Char2Ids(call.document[i],
                                               call.add_start_end_tag, call.unit).value]
       IN IF call.doc_form = "sentences"
            THEN /\ Len(ret.value) = Len(call.document)
                 /\ \A i \in DOMAIN call.document : ret.value[i] = per[i]
            ELSE ret.value = Flatten(per)

====
